---- MODULE Spec2Model ----
(***************************************************************************)
(* Model of src/main.py: the /farmer-assistant handler and the in-memory   *)
(* session store chat_sessions.                                            *)
(*                                                                         *)
(* Text is a sequence of tokens.  A token is a piece of text that the      *)
(* string operations of the handler treat as a unit: the two markers       *)
(* "Answer:" and "Context:", a whitespace character, an ordinary word, or  *)
(* a literal piece of the prompt template.  str.strip, "in", str.split     *)
(* and str.replace are computed on these sequences as Python computes      *)
(* them on the characters.                                                 *)
(***************************************************************************)
EXTENDS Integers, Sequences, FiniteSets, TLC

\* ---------------------------------------------------------------- bounds
MaxRequests == 3
MaxLen == 4

Requests == 1..MaxRequests

\* ------------------------------------------------------- text operations
Whitespace == {" ", "\n", "\t"}

RECURSIVE LStrip(_)
LStrip(t) ==
  IF t # <<>> /\ Head(t) \in Whitespace THEN LStrip(Tail(t)) ELSE t

RECURSIVE RStrip(_)
RStrip(t) ==
  IF t # <<>> /\ t[Len(t)] \in Whitespace
    THEN RStrip(SubSeq(t, 1, Len(t) - 1))
    ELSE t

\* str.strip()
Strip(t) == RStrip(LStrip(t))

\* sub in t
Contains(t, sub) == \E i \in 1..Len(t) : t[i] = sub

\* index of the first occurrence of sub in t (t contains sub)
Find(t, sub) == CHOOSE i \in 1..Len(t) : t[i] = sub /\ \A j \in 1..(i - 1) : t[j] # sub

FindLast(t, sub) == CHOOSE i \in 1..Len(t) : t[i] = sub /\ \A j \in (i + 1)..Len(t) : t[j] # sub

SplitOnce_last(t, sep) ==
  <<SubSeq(t, 1, FindLast(t, sep) - 1), SubSeq(t, FindLast(t, sep) + 1, Len(t))>>

\* t.split(sep, 1), for t containing sep
SplitOnce(t, sep) ==
  <<SubSeq(t, 1, Find(t, sep) - 1), SubSeq(t, Find(t, sep) + 1, Len(t))>>

\* t.replace(old, "")
ReplaceAll(t, old) == SelectSeq(t, LAMBDA c : c # old)

RECURSIVE Join(_, _)
\* sep.join(items)
Join(sep, items) ==
  IF items = <<>> THEN <<>>
  ELSE IF Len(items) = 1 THEN items[1]
  ELSE items[1] \o sep \o Join(sep, Tail(items))

\* ------------------------------------------------------ program constants
\* the absent value of an omitted JSON field
None == "<none>"

\* FarmerQuery.session_id: str = "default"
DefaultSessionId_anonymous == "anonymous"

DefaultSessionId == "default"

\* FarmerResponse.note
Note == <<"This is AI-generated information. Please consult a veterinary expert for critical issues.">>

\* the sentences of the except branch and of the else branch
FallbackAnswer == <<"Sorry, I am unable to answer your query right now.">>

FallbackContext == <<"Try again later or consult a nearby veterinary expert.">>

GenericContext == <<"This advice is important for improving animal health and productivity in practical farming conditions.">>

\* the literal pieces of HUSBANDRY_PROMPT_TEMPLATE around its two fields
TemplateHead == <<"You are an expert in animal husbandry. A farmer has asked the following question:", "\n", "\n">>

TemplateTail == <<"Give the response in two parts:", "\n",
                  "1. Answer -> direct and practical guidance in simple language.", "\n",
                  "2. Context -> explain why this answer is important, provide background info, preventive measures, or related best practices.", "\n",
                  "Keep the explanation simple and actionable for farmers.">>

\* HUSBANDRY_PROMPT_TEMPLATE.format(query=..., previous_context=...)
HUSBANDRY_PROMPT_TEMPLATE(query, previous_context) ==
  TemplateHead \o query \o <<"\n", "\n">> \o previous_context \o <<"\n">> \o TemplateTail

\* ---------------------------------------------------------- session store
\* chat_sessions.get(session_id, [])
Get_empty(sessions, session_id) == <<>>

Get(sessions, session_id) ==
  IF session_id \in DOMAIN sessions THEN sessions[session_id] ELSE <<>>

\* the store after chat_sessions.get(session_id, []): dict.get inserts nothing
StoreAfterGet_setdefault(sessions, session_id) ==
  [k \in DOMAIN sessions \cup {session_id} |-> Get(sessions, k)]

StoreAfterGet(sessions, session_id) == sessions

\* chat_sessions.setdefault(session_id, []).append(item)
SetDefaultAppend_replace(sessions, session_id, item) ==
  [k \in DOMAIN sessions \cup {session_id} |->
     IF k = session_id THEN <<item>> ELSE sessions[k]]

SetDefaultAppend_twice(sessions, session_id, item) ==
  [k \in DOMAIN sessions \cup {session_id} |->
     IF k = session_id THEN Get(sessions, session_id) \o <<item, item>> ELSE sessions[k]]

SetDefaultAppend_everySession(sessions, session_id, item) ==
  [k \in DOMAIN sessions \cup {session_id} |-> Append(Get(sessions, k), item)]

SetDefaultAppend(sessions, session_id, item) ==
  [k \in DOMAIN sessions \cup {session_id} |->
     IF k = session_id THEN Append(Get(sessions, session_id), item) ELSE sessions[k]]

\* --------------------------------------------------------- request model
\* FarmerQuery(**body): session_id takes its default when the body omits it
FarmerQuery(body) ==
  [query |-> body.query,
   session_id |-> IF body.session_id = None THEN DefaultSessionId ELSE body.session_id]

\* FarmerResponse(answer=..., context=...): note takes its default
FarmerResponse_noteFromContext(answer, context) ==
  [answer |-> answer, context |-> context, note |-> context]

FarmerResponse(answer, context) ==
  [answer |-> answer, context |-> context, note |-> Note]

\* ---------------------------------------------------------- prompt build
\* f"Farmer: {item['query']}\nAI: {item['answer']}"
RenderItem(item) == <<"Farmer: ">> \o item.query \o <<"\n", "AI: ">> \o item.answer

RenderItems(history) == [i \in 1..Len(history) |-> RenderItem(history[i])]

Reverse(s) == [i \in 1..Len(s) |-> s[Len(s) + 1 - i]]

\* lines 60-64
PreviousContextText_reversed(history) ==
  IF history # <<>>
    THEN <<"Previous conversation:", "\n">> \o Join(<<"\n">>, RenderItems(Reverse(history)))
    ELSE <<>>

PreviousContextText(history) ==
  IF history # <<>>
    THEN <<"Previous conversation:", "\n">> \o Join(<<"\n">>, RenderItems(history))
    ELSE <<>>

\* lines 67-70
BuildPrompt(query, history) ==
  HUSBANDRY_PROMPT_TEMPLATE(Strip(query), PreviousContextText(history))

\* ------------------------------------------------------- response split
\* lines 75-84: the answer and the context taken from response.text
SplitResponse_noStrip(text) ==
  LET text_output == text
  IN IF Contains(text_output, "Context:")
       THEN LET parts == SplitOnce(text_output, "Context:")
            IN [answer |-> Strip(ReplaceAll(parts[1], "Answer:")),
                context |-> Strip(parts[2])]
       ELSE [answer |-> text_output, context |-> GenericContext]

SplitResponse(text) ==
  LET text_output == Strip(text)
  IN IF Contains(text_output, "Context:")
       THEN LET parts == SplitOnce(text_output, "Context:")
            IN [answer |-> Strip(ReplaceAll(parts[1], "Answer:")),
                context |-> Strip(parts[2])]
       ELSE [answer |-> text_output, context |-> GenericContext]

\* line 74: model.generate_content(prompt) is a plain blocking call, the
\* handler has no await: the event loop runs nothing else until it returns
GenerateContentSuspends_await == TRUE

GenerateContentSuspends == FALSE

\* ------------------------------------------------------------ input sets
\* session_id of a request body: two ids, or the field left out
BodySessionIds == {"default", "s1", None}

\* query texts; the first carries surrounding whitespace
Queries == {<<" ", "q1", " ">>, <<"q2">>}

\* response.text of the handler's model call
ModelOutputs == {<<"Answer:", " ", "a1", " ", "Context:", " ", "c1", "\n">>, <<" ", "a2">>}

\* tokens of the texts given to the response split on its own
Alphabet == {"Answer:", "Context:", " ", "\n", "a", "b"}

Texts(n) == UNION {[1..k -> Alphabet] : k \in 0..n}

\* ----------------------------------------------------------------- state
VARIABLES
  chat_sessions,  \* session_id -> sequence of [query, answer]
  pc,             \* per request: "idle", "ready" (accepted, handler not yet run),
                  \* "call" (inside generate_content), "done"
  body,           \* per request: the JSON body received
  history,        \* per request: the handler's local history (line 59)
  prompt,         \* per request: the handler's local prompt (line 67)
  running,        \* the request whose handler the event loop is executing, 0 if none
  outcome,        \* per request: "pending", "ok", "provider_error", "error"
  status,         \* per request: HTTP status sent, 0 while none is sent
  response,       \* per request: <<>> or <<the FarmerResponse returned>>
  text,           \* response split on its own: the model's raw text
  split           \* response split on its own: <<>> or <<its result>>

vars == <<chat_sessions, pc, body, history, prompt, running, outcome, status,
          response, text, split>>

NoBody == [query |-> <<>>, session_id |-> None]

req(r) == FarmerQuery(body[r])

Init ==
  /\ chat_sessions = <<>>
  /\ pc = [r \in Requests |-> "idle"]
  /\ body = [r \in Requests |-> NoBody]
  /\ history = [r \in Requests |-> <<>>]
  /\ prompt = [r \in Requests |-> <<>>]
  /\ running = 0
  /\ outcome = [r \in Requests |-> "pending"]
  /\ status = [r \in Requests |-> 0]
  /\ response = [r \in Requests |-> <<>>]
  /\ text = <<>>
  /\ split = <<>>

\* ------------------------------------------------------------- operations
\* a POST /farmer-assistant arrives and is validated into a FarmerQuery;
\* requests take the slots 1, 2, ... in their order of arrival
Arrive(r, query, session_id) ==
  /\ pc[r] = "idle"
  /\ \A r2 \in Requests : r2 < r => pc[r2] # "idle"
  /\ body' = [body EXCEPT ![r] = [query |-> query, session_id |-> session_id]]
  /\ pc' = [pc EXCEPT ![r] = "ready"]
  /\ UNCHANGED <<chat_sessions, history, prompt, running, outcome, status,
                 response, text, split>>

\* lines 57-74: the event loop starts the handler, which reads the session,
\* builds the prompt and enters the model call
Begin(r) ==
  /\ pc[r] = "ready"
  /\ running = 0
  /\ history' = [history EXCEPT ![r] = Get(chat_sessions, req(r).session_id)]
  /\ prompt' = [prompt EXCEPT ![r] = BuildPrompt(req(r).query, history'[r])]
  /\ pc' = [pc EXCEPT ![r] = "call"]
  /\ running' = IF GenerateContentSuspends THEN 0 ELSE r
  /\ chat_sessions' = StoreAfterGet(chat_sessions, req(r).session_id)
  /\ UNCHANGED <<body, outcome, status, response, text, split>>

\* the handler is the one the event loop executes after the model call
Resumes(r) ==
  /\ pc[r] = "call"
  /\ running = IF GenerateContentSuspends THEN 0 ELSE r

\* lines 90-96: save the exchange and return the response
Finish(r, result, answer_text, context_text) ==
  /\ chat_sessions' = SetDefaultAppend(chat_sessions, req(r).session_id,
                        [query |-> req(r).query, answer |-> answer_text])
  /\ response' = [response EXCEPT ![r] = <<FarmerResponse(answer_text, context_text)>>]
  /\ outcome' = [outcome EXCEPT ![r] = result]
  /\ status' = [status EXCEPT ![r] = 200]
  /\ pc' = [pc EXCEPT ![r] = "done"]
  /\ history' = [history EXCEPT ![r] = <<>>]
  /\ prompt' = [prompt EXCEPT ![r] = <<>>]
  /\ running' = 0
  /\ UNCHANGED <<body, text, split>>

\* lines 74-84, 90-96: the model call returns text
ModelReturns(r, raw) ==
  /\ Resumes(r)
  /\ Finish(r, "ok", SplitResponse(raw).answer, SplitResponse(raw).context)

\* an exception leaves the handler: nothing is saved, the framework answers 500
Raise(r, result) ==
  /\ outcome' = [outcome EXCEPT ![r] = result]
  /\ status' = [status EXCEPT ![r] = 500]
  /\ pc' = [pc EXCEPT ![r] = "done"]
  /\ history' = [history EXCEPT ![r] = <<>>]
  /\ prompt' = [prompt EXCEPT ![r] = <<>>]
  /\ running' = 0
  /\ UNCHANGED <<chat_sessions, body, response, text, split>>

ProviderFails_propagates(r) ==
  /\ Resumes(r)
  /\ Raise(r, "provider_error")

ProviderFails_noSave(r) ==
  /\ Resumes(r)
  /\ response' = [response EXCEPT ![r] = <<FarmerResponse(FallbackAnswer, FallbackContext)>>]
  /\ outcome' = [outcome EXCEPT ![r] = "provider_error"]
  /\ status' = [status EXCEPT ![r] = 200]
  /\ pc' = [pc EXCEPT ![r] = "done"]
  /\ history' = [history EXCEPT ![r] = <<>>]
  /\ prompt' = [prompt EXCEPT ![r] = <<>>]
  /\ running' = 0
  /\ UNCHANGED <<chat_sessions, body, text, split>>

\* lines 86-88, 90-96: the model call raises GoogleAPIError
ProviderFails(r) ==
  /\ Resumes(r)
  /\ Finish(r, "provider_error", FallbackAnswer, FallbackContext)

\* lines 73-75: the model call or response.text raises any other exception,
\* which is not caught
OtherError(r) ==
  /\ Resumes(r)
  /\ Raise(r, "error")

Next ==
  \/ \E r \in Requests, q \in Queries, s \in BodySessionIds : Arrive(r, q, s)
  \/ \E r \in Requests : Begin(r)
  \/ \E r \in Requests, raw \in ModelOutputs : ModelReturns(r, raw)
  \/ \E r \in Requests : ProviderFails(r)
  \/ \E r \in Requests : OtherError(r)

Spec == Init /\ [][Next]_vars

\* the event loop runs every handler that is ready and every model call ends
FairSpec ==
  /\ Spec
  /\ \A r \in Requests : WF_vars(Begin(r))
  /\ \A r \in Requests :
       WF_vars((\E raw \in ModelOutputs : ModelReturns(r, raw)) \/ ProviderFails(r) \/ OtherError(r))

\* ------------------------------------------ the response split on its own
SplitInit ==
  /\ Init!1 /\ Init!2 /\ Init!3 /\ Init!4 /\ Init!5 /\ Init!6 /\ Init!7 /\ Init!8 /\ Init!9
  /\ text \in Texts(MaxLen)
  /\ split = <<>>

\* lines 75-84 applied to the text
Split ==
  /\ split = <<>>
  /\ split' = <<SplitResponse(text)>>
  /\ UNCHANGED <<chat_sessions, pc, body, history, prompt, running, outcome,
                 status, response, text>>

SplitNext == Split

SplitSpec == SplitInit /\ [][SplitNext]_vars

\* ================================================================ claims
Positions(t, tok) == {i \in 1..Len(t) : t[i] = tok}

Count(t, tok) == Cardinality(Positions(t, tok))

\* position of the k-th occurrence of tok in t
KthPos(t, tok, k) ==
  CHOOSE i \in Positions(t, tok) : Cardinality({j \in Positions(t, tok) : j <= i}) = k

\* the text of one "Farmer: <query>" / "AI: <answer>" pair
PairText(query, answer) == <<"Farmer: ">> \o query \o <<"\n", "AI: ">> \o answer

\* p holds the text sub at position i
HoldsAt(p, i, sub) ==
  /\ i + Len(sub) - 1 <= Len(p)
  /\ SubSeq(p, i, i + Len(sub) - 1) = sub

HasPair(p, query, answer) ==
  \E i \in 1..Len(p) : HoldsAt(p, i, PairText(query, answer))

\* p shows the exchanges of h, one pair each, in the order of h, and no
\* "Previous conversation" block when h is empty
ShowsExactly(p, h) ==
  /\ Count(p, "Farmer: ") = Len(h)
  /\ Count(p, "AI: ") = Len(h)
  /\ Count(p, "Previous conversation:") = IF Len(h) = 0 THEN 0 ELSE 1
  /\ \A k \in 1..Len(h) :
       HoldsAt(p, KthPos(p, "Farmer: ", k), PairText(h[k].query, h[k].answer))

SessionOf(r) == IF body[r].session_id = None THEN "default" ELSE body[r].session_id

Returned(r) == pc[r] = "done" /\ status[r] = 200

\* C1: the prompt a request builds has no "Previous conversation" block when
\* its session holds no exchange, and otherwise exactly one "Farmer:"/"AI:"
\* pair per stored exchange, in the order of the transcript.
C1_PromptShowsTranscript ==
  \A r \in Requests :
    pc[r] = "call" => ShowsExactly(prompt[r], Get(chat_sessions, SessionOf(r)))

C1_Witness ==
  \E r \in Requests :
    /\ pc[r] = "call"
    /\ Len(Get(chat_sessions, SessionOf(r))) = 2
    /\ chat_sessions[SessionOf(r)][1] # chat_sessions[SessionOf(r)][2]

\* C2: when a request reads its session, its prompt holds the exchange (query
\* and returned answer) of every request of the same session that has
\* already returned a successful response.
C2_LaterPromptHoldsExchange ==
  [][\A r, r2 \in Requests :
       ( /\ pc[r] = "ready" /\ pc'[r] = "call"
         /\ pc[r2] = "done" /\ outcome[r2] = "ok"
         /\ SessionOf(r2) = SessionOf(r) )
       => HasPair(prompt'[r], body[r2].query, response[r2][1].answer)]_vars

C2_Witness ==
  \E r, r2, r3 \in Requests :
    /\ pc[r] = "call" /\ pc[r2] = "done" /\ outcome[r2] = "ok"
    /\ SessionOf(r2) = SessionOf(r)
    /\ pc[r3] = "done" /\ SessionOf(r3) # SessionOf(r) /\ status[r3] = 200
    /\ Len(history[r]) = 1

\* the answer C3 describes for the text before the marker
C3_Answer(before) ==
  LET b == Strip(before)
  IN Strip(IF b # <<>> /\ Head(b) = "Answer:" THEN Tail(b) ELSE b)

\* C3: for an output with exactly one "Context:" marker, the answer is the
\* text before the marker with only a leading "Answer:" removed, trimmed, and
\* the context is the trimmed text after the marker.
C3_SingleMarkerSplit ==
  (split # <<>> /\ Count(text, "Context:") = 1) =>
    LET i == KthPos(text, "Context:", 1)
    IN /\ split[1].answer = C3_Answer(SubSeq(text, 1, i - 1))
       /\ split[1].context = Strip(SubSeq(text, i + 1, Len(text)))

\* t is raw without its leading and trailing whitespace
IsTrimOf(t, raw) ==
  \E i, j \in 0..Len(raw) :
    /\ i + Len(t) + j = Len(raw)
    /\ \A k \in 1..i : raw[k] \in {" ", "\n", "\t"}
    /\ \A k \in (Len(raw) - j + 1)..Len(raw) : raw[k] \in {" ", "\n", "\t"}
    /\ \A k \in 1..Len(t) : t[k] = raw[i + k]
    /\ t # <<>> => (t[1] \notin {" ", "\n", "\t"} /\ t[Len(t)] \notin {" ", "\n", "\t"})

\* C4: for an output without the "Context:" marker, the answer is the whole
\* trimmed output, "Answer:" text included, and the context is the generic
\* sentence.
C4_NoMarkerSplit ==
  (split # <<>> /\ Count(text, "Context:") = 0) =>
    /\ IsTrimOf(split[1].answer, text)
    /\ split[1].context = <<"This advice is important for improving animal health and productivity in practical farming conditions.">>

C4_Witness ==
  /\ split # <<>>
  /\ text = <<" ", "Answer:", "a", "\n">>
  /\ split[1].answer = <<"Answer:", "a">>

\* C5: a request whose provider call failed with a provider error returns a
\* normal response with the fixed fallback answer and context.
C5_ProviderFailureFallback ==
  \A r \in Requests :
    outcome[r] = "provider_error" =>
      /\ status[r] = 200
      /\ response[r] # <<>>
      /\ response[r][1].answer = <<"Sorry, I am unable to answer your query right now.">>
      /\ response[r][1].context = <<"Try again later or consult a nearby veterinary expert.">>

C5_Witness ==
  \E r, r2 \in Requests :
    /\ outcome[r] = "provider_error" /\ outcome[r2] = "ok"
    /\ SessionOf(r) = SessionOf(r2)
    /\ Len(chat_sessions[SessionOf(r)]) = 2
    /\ chat_sessions[SessionOf(r)][2].query = body[r].query

IsPrefix(s, t) == Len(s) <= Len(t) /\ \A i \in 1..Len(s) : s[i] = t[i]

\* C6: every step keeps every session in the store and keeps its transcript
\* as a prefix of the transcript after the step.
C6_AppendOnly ==
  [][\A s \in DOMAIN chat_sessions :
       /\ s \in DOMAIN chat_sessions'
       /\ IsPrefix(chat_sessions[s], chat_sessions'[s])]_vars

C6_Witness ==
  \E s \in DOMAIN chat_sessions, s2 \in DOMAIN chat_sessions :
    s # s2 /\ Len(chat_sessions[s]) = 2

\* two requests of one session are in flight together
ConcurrentSameSession ==
  \E r1, r2 \in Requests :
    /\ r1 # r2 /\ SessionOf(r1) = SessionOf(r2)
    /\ pc[r1] \in {"ready", "call"} /\ pc[r2] \in {"ready", "call"}

\* two requests of one session have both read the transcript and not yet appended
Interleaved ==
  \E r1, r2 \in Requests :
    /\ r1 # r2 /\ SessionOf(r1) = SessionOf(r2)
    /\ pc[r1] = "call" /\ pc[r2] = "call"

C8_OneExchangePerResponse ==
  \A s \in {"default", "s1"} :
    LET returned == {r \in Requests : Returned(r) /\ SessionOf(r) = s}
    IN /\ Len(Get(chat_sessions, s)) = Cardinality(returned)
       /\ returned # {} => s \in DOMAIN chat_sessions
       /\ \A r \in returned :
            \E i \in 1..Len(Get(chat_sessions, s)) :
              chat_sessions[s][i] = [query |-> body[r].query, answer |-> response[r][1].answer]

C8_Witness ==
  \E r1, r2, r3 \in Requests :
    /\ r1 # r2 /\ Returned(r1) /\ Returned(r2) /\ SessionOf(r1) = SessionOf(r2)
    /\ pc[r3] = "done" /\ status[r3] = 500 /\ SessionOf(r3) = SessionOf(r1)

\* C9: a request without session_id reads the transcript stored under
\* "default", shows it in its prompt, and appends its exchange to it.
C9_OmittedIsDefault ==
  [][\A r \in Requests :
       body[r].session_id = None =>
         /\ (pc[r] = "ready" /\ pc'[r] = "call") =>
              /\ history'[r] = Get(chat_sessions, "default")
              /\ ShowsExactly(prompt'[r], Get(chat_sessions, "default"))
         /\ (pc[r] = "call" /\ status'[r] = 200) =>
              /\ DOMAIN chat_sessions' = DOMAIN chat_sessions \cup {"default"}
              /\ chat_sessions'["default"] =
                   Append(Get(chat_sessions, "default"),
                          [query |-> body[r].query, answer |-> response'[r][1].answer])
              /\ \A k \in DOMAIN chat_sessions : k # "default" => chat_sessions'[k] = chat_sessions[k]]_vars

C9_Witness ==
  \E r1, r2, r3 \in Requests :
    /\ body[r1].session_id = None /\ body[r2].session_id = "default" /\ body[r3].session_id = None
    /\ Returned(r1) /\ Returned(r2) /\ pc[r3] = "call"
    /\ Len(history[r3]) = 2

\* C10: every response carries the same fixed note.
C10_FixedNote ==
  \A r \in Requests :
    /\ status[r] = 200 => response[r] # <<>>
    /\ response[r] # <<>> =>
         response[r][1].note = <<"This is AI-generated information. Please consult a veterinary expert for critical issues.">>

C10_Witness ==
  \E r1, r2 \in Requests :
    /\ outcome[r1] = "ok" /\ outcome[r2] = "provider_error"
    /\ response[r1] # <<>> /\ response[r2] # <<>>
    /\ body[r1] # body[r2]

\* C11: every request that returns a response appends one exchange made of
\* its query and of the answer field it returns, nothing else, also on the
\* fallback path; a later request of the session shows the fallback exchange
\* as a "Farmer:"/"AI:" pair in its prompt.
C11_AppendOnEveryResponse ==
  [][\A r \in Requests :
       /\ (pc[r] = "call" /\ status'[r] = 200) =>
            /\ SessionOf(r) \in DOMAIN chat_sessions'
            /\ Get(chat_sessions', SessionOf(r)) =
                 Append(Get(chat_sessions, SessionOf(r)),
                        [query |-> body[r].query, answer |-> response'[r][1].answer])
            /\ outcome'[r] = "provider_error" =>
                 response'[r][1].answer = <<"Sorry, I am unable to answer your query right now.">>
       /\ (pc[r] = "ready" /\ pc'[r] = "call") =>
            \A r2 \in Requests :
              (outcome[r2] = "provider_error" /\ SessionOf(r2) = SessionOf(r)) =>
                HasPair(prompt'[r], body[r2].query,
                        <<"Sorry, I am unable to answer your query right now.">>)]_vars

C11_Witness ==
  \E r, r2 \in Requests :
    /\ pc[r] = "call" /\ outcome[r2] = "provider_error"
    /\ SessionOf(r2) = SessionOf(r)
    /\ Len(history[r]) = 2
    /\ history[r][2] = [query |-> body[r2].query, answer |-> response[r2][1].answer]

\* C12: for an output with more than one "Context:" marker the split is at
\* the first one: the answer comes from the text before it, the context is
\* the trimmed text after it, later markers included, and the generic
\* sentence is not used.
C12_FirstMarkerSplit ==
  (split # <<>> /\ Count(text, "Context:") >= 2) =>
    LET i == KthPos(text, "Context:", 1)
        before == SubSeq(text, 1, i - 1)
        after == SubSeq(text, i + 1, Len(text))
    IN /\ IsTrimOf(split[1].context, after)
       /\ Count(split[1].context, "Context:") = Count(text, "Context:") - 1
       /\ split[1].context # <<"This advice is important for improving animal health and productivity in practical farming conditions.">>
       /\ Count(split[1].answer, "Context:") = 0
       /\ IsTrimOf(split[1].answer, SelectSeq(before, LAMBDA c : c # "Answer:"))

C12_Witness ==
  /\ split # <<>>
  /\ text = <<"a", "Context:", "b", "Context:">>
  /\ split[1] = [answer |-> <<"a">>, context |-> <<"b", "Context:">>]

\* the exchange a returned request r2 appended is also one of transcript h
InTranscript(h, r2) ==
  \E i \in 1..Len(h) :
    h[i] = [query |-> body[r2].query, answer |-> response[r2][1].answer]

\* C13: a step of a request changes the transcript of its own session only:
\* every other session keeps its transcript and no other session appears;
\* the prompt a request builds shows the transcript of its own session and
\* no exchange that was appended under another session_id only.
C13_SessionsIsolated ==
  [][\A r \in Requests :
       /\ pc'[r] # pc[r] =>
            \A k \in {"default", "s1"} \ {SessionOf(r)} :
              /\ k \in DOMAIN chat_sessions' <=> k \in DOMAIN chat_sessions
              /\ Get(chat_sessions', k) = Get(chat_sessions, k)
       /\ (pc[r] = "ready" /\ pc'[r] = "call") =>
            /\ ShowsExactly(prompt'[r], Get(chat_sessions, SessionOf(r)))
            /\ \A r2 \in Requests :
                 ( /\ Returned(r2) /\ SessionOf(r2) # SessionOf(r)
                   /\ ~InTranscript(Get(chat_sessions, SessionOf(r)), r2) )
                 => ~HasPair(prompt'[r], body[r2].query, response[r2][1].answer)]_vars

C13_Witness ==
  \E r, r2, r3 \in Requests :
    /\ pc[r] = "call" /\ Returned(r2) /\ Returned(r3)
    /\ SessionOf(r2) # SessionOf(r) /\ SessionOf(r3) = SessionOf(r)
    /\ ~InTranscript(Get(chat_sessions, SessionOf(r)), r2)
    /\ Len(Get(chat_sessions, SessionOf(r2))) = 1

\* C14: a request whose model call raises an error other than a provider
\* error gets no response, and neither its read of the transcript nor its
\* failure changes the session store: nothing is appended and a session
\* that was absent stays absent.
C14_OtherErrorLeavesStore ==
  [][\A r \in Requests :
       /\ (pc[r] = "ready" /\ pc'[r] = "call") =>
            /\ chat_sessions' = chat_sessions
            /\ SessionOf(r) \notin DOMAIN chat_sessions => SessionOf(r) \notin DOMAIN chat_sessions'
       /\ (pc[r] = "call" /\ outcome'[r] = "error") =>
            /\ response'[r] = <<>>
            /\ status'[r] # 200
            /\ chat_sessions' = chat_sessions
            /\ Get(chat_sessions', SessionOf(r)) = history[r]
            /\ SessionOf(r) \notin DOMAIN chat_sessions => SessionOf(r) \notin DOMAIN chat_sessions']_vars

C14_Witness ==
  \E r, r2 \in Requests :
    /\ pc[r] = "done" /\ outcome[r] = "error" /\ response[r] = <<>>
    /\ SessionOf(r) \notin DOMAIN chat_sessions
    /\ Returned(r2) /\ SessionOf(r2) \in DOMAIN chat_sessions

====
